---- MODULE Spec2Model ----
(***************************************************************************)
(* A model of yaml_dotaccess: the DotAccessDict accessor of                *)
(* simplenamespace_sample.py (construction, attribute access, assignment,  *)
(* enumeration, equality, deep sort), its SafeNone sentinel, and the Box   *)
(* variant's constructor and sort of box_sample.py.                        *)
(*                                                                         *)
(* Python objects that have identity (accessors and lists) live in a heap, *)
(* a sequence of objects addressed by their index; every other value is a  *)
(* tagged record.                                                          *)
(***************************************************************************)
EXTENDS Naturals, Sequences, FiniteSets, TLC

VARIABLES
    heap,      \* the objects allocated so far
    src,       \* the parsed document handed to the constructor
    x,         \* loaded_yaml of simplenamespace_sample: the accessor built from src
    box,       \* loaded_yaml of box_sample: the Box built from src
    sbox,      \* sorted_yaml of box_sample
    cur,       \* the value of the attribute chain read so far
    miss,      \* how many segments the chain has read from its first missing one on
    written,   \* history: the last value assigned to each (object, name)
    assigns,   \* how many assignments were made
    y,         \* sorted_yaml of simplenamespace_sample: x.sort(key, reverse)
    args,      \* the arguments of that call
    z          \* y sorted again with the same arguments

vars == <<heap, src, x, box, sbox, cur, miss, written, assigns, y, args, z>>

----------------------------------------------------------------------------
(* Bounds of the model. *)

MaxDepth == 2      \* nesting levels of mappings in a source document
MaxChain == 3      \* segments an attribute chain reads from its first missing one on
MaxAssign == 1     \* attribute assignments in one run

----------------------------------------------------------------------------
(* Python values. *)

Null == [t |-> "unset"]                      \* a program variable not yet bound
PyNone == [t |-> "None"]
PyInt(n) == [t |-> "int", v |-> n]
PyStr(s) == [t |-> "str", s |-> s]
PyTuple(k, v) == [t |-> "tuple", k |-> k, v |-> v]
PyDict(its) == [t |-> "dict", items |-> its] \* a plain mapping: an ordered sequence of <<key, value>>
PyList(es) == [t |-> "list", elems |-> es]   \* a plain list, as the parser returns it
Ref(i) == [t |-> "ref", id |-> i]            \* a reference to heap[i]
Raised(e) == [t |-> "raise", exc |-> e]      \* the evaluation raised e

(* The keys of the source documents; "keys" is also a method of the accessor. *)
Keys == {"a", "B", "keys"}
(* The segments a caller reads or assigns: the keys and one that is never a key. *)
Names == Keys \cup {"zz"}

(* The code points of the strings used, for Python's str ordering. *)
Ord(s) ==
    CASE s = "a" -> <<97>>
      [] s = "B" -> <<66>>
      [] s = "keys" -> <<107, 101, 121, 115>>
      [] s = "zz" -> <<122, 122>>

RECURSIVE SeqLess(_, _)
SeqLess(p, q) ==
    IF q = <<>> THEN FALSE
    ELSE IF p = <<>> THEN TRUE
    ELSE IF Head(p) # Head(q) THEN Head(p) < Head(q)
    ELSE SeqLess(Tail(p), Tail(q))

(* a < b for the values sorted() compares here: str, int and (key, value) tuples.
   The keys of one mapping are distinct, so a tuple comparison is decided by the
   keys and never reaches the values. *)
PyLess(a, b) ==
    CASE a.t = "str" -> SeqLess(Ord(a.s), Ord(b.s))
      [] a.t = "int" -> a.v < b.v
      [] a.t = "tuple" -> SeqLess(Ord(a.k), Ord(b.k))

----------------------------------------------------------------------------
(* The builtin sorted(). *)

(* The key functions: None, the builtin len, lambda item: len(item[0]), which
   callers of DotAccessDict.sort pass, and lambda x: str(x[0]) of box_sample. *)
KeyFns == {"None", "len", "keylen"}

(* key(arg), for an argument that is a str or a (key, value) tuple. *)
ApplyKey(key, arg) ==
    CASE key = "None" -> arg
      [] key = "len" -> IF arg.t = "tuple" THEN PyInt(2) ELSE PyInt(Len(Ord(arg.s)))
      [] key = "keylen" -> IF arg.t = "tuple" THEN PyInt(Len(Ord(arg.k))) ELSE PyInt(1)
      [] key = "str0" -> IF arg.t = "tuple" THEN PyStr(arg.k) ELSE PyStr(arg.s)

(* Whether sorted() puts an element with sort key a before one with sort key b. *)
Precedes(a, b, reverse) == IF reverse THEN PyLess(b, a) ELSE PyLess(a, b)

(* The sort key of an element of items(): key is called on the (key, value) tuple. *)
ItemKey(key, it) == ApplyKey(key, PyTuple(it[1], it[2]))

(* e put into the sorted sequence s: before the first element it precedes, so after
   every element it ties with. *)
Insert(s, e, key, reverse) ==
    LET before == {i \in 1..Len(s) : Precedes(ItemKey(key, e), ItemKey(key, s[i]), reverse)}
        pos == IF before = {} THEN Len(s) + 1
               ELSE CHOOSE i \in before : \A j \in before : i <= j
    IN  SubSeq(s, 1, pos - 1) \o <<e>> \o SubSeq(s, pos, Len(s))

RECURSIVE StableSort(_, _, _, _, _)
StableSort(its, i, acc, key, reverse) ==
    IF i > Len(its) THEN acc
    ELSE StableSort(its, i + 1, Insert(acc, its[i], key, reverse), key, reverse)

Reverse(s) == [i \in 1..Len(s) |-> s[Len(s) + 1 - i]]

(* sorted() with reverse not passed on. *)
sorted_IgnoreReverse(its, key, reverse) == StableSort(its, 1, <<>>, key, FALSE)

(* sorted() with reverse done by reversing the ascending result. *)
sorted_ReverseAfter(its, key, reverse) ==
    IF reverse THEN Reverse(StableSort(its, 1, <<>>, key, FALSE))
    ELSE StableSort(its, 1, <<>>, key, FALSE)

(* sorted(iterable, key=key, reverse=reverse): stable, and with reverse the elements
   that tie keep their order too. *)
sorted(its, key, reverse) == StableSort(its, 1, <<>>, key, reverse)

----------------------------------------------------------------------------
(* Source documents: what yaml.safe_load returns. *)

(* The key orders of a mapping of at most w keys: distinct keys, in any order. *)
KeySeqs(w) ==
    UNION {{ks \in [1..n -> Keys] : \A i, j \in 1..n : i # j => ks[i] # ks[j]} : n \in 1..w}

(* A mapping with keys ks whose values are 1, 2, ... except the last, which is last. *)
Mapping(ks, last) ==
    PyDict([i \in 1..Len(ks) |-> <<ks[i], IF i = Len(ks) THEN last ELSE PyInt(i)>>])

FlatMappings == {PyDict(<<<<k, v>>>>) : k \in Keys, v \in {PyNone, PyInt(1)}}

(* The mappings of at most d nesting levels and w keys a level. The last value of a
   mapping is a scalar, a list that holds a list, a nested mapping, or a list that
   holds a scalar and a mapping. *)
RECURSIVE Mappings(_, _)
Mappings(d, w) ==
    LET leaves == {PyNone, PyInt(7), PyList(<<PyList(<<PyInt(1)>>)>>)}
        nested == IF d <= 1 THEN {}
                  ELSE Mappings(d - 1, w)
                       \cup {PyList(<<PyInt(0), m>>) : m \in FlatMappings}
    IN  {Mapping(ks, last) : ks \in KeySeqs(w), last \in leaves \cup nested}

(* What is no mapping: an empty document, and one whose top level is a list. *)
Malformed == {PyDict(<<>>), PyNone, PyList(<<PyInt(1)>>)}

(* A document is a mapping, or no mapping at all. *)
Sources == Mappings(MaxDepth, Cardinality(Keys)) \cup Malformed

(* The documents whose mappings hold one key each. *)
NarrowSources == Mappings(MaxDepth, 1) \cup Malformed

----------------------------------------------------------------------------
(* The heap and construction. *)

Alloc(h, obj) == [heap |-> Append(h, obj), ref |-> Ref(Len(h) + 1)]

IsAccessor(h, v) == v.t = "ref" /\ h[v.id].cls = "DotAccessDict"
IsListObj(h, v) == v.t = "ref" /\ h[v.id].cls = "list"

(* OrderedDict.__setitem__: a new key goes last, an old key keeps its place. *)
SetItem(its, k, v) ==
    IF \E i \in 1..Len(its) : its[i][1] = k
    THEN [i \in 1..Len(its) |-> IF its[i][1] = k THEN <<k, v>> ELSE its[i]]
    ELSE Append(its, <<k, v>>)

(* Store without line 53's setattr: the namespace is never filled. *)
Store_NoNamespace(h, self, k, v) ==
    [h EXCEPT ![self]._data = SetItem(@, k, v)]

(* self._data[key] = value; setattr(self._namespace, str(key), self._data[key]) *)
Store(h, self, k, v) ==
    [h EXCEPT ![self]._data = SetItem(@, k, v),
              ![self]._namespace = (k :> v) @@ @]

(* An element the constructor keeps as it is: a scalar, or the parser's own list
   object, which the accessor then shares with the source. *)
Kept(h, item) ==
    IF item.t = "list" THEN Alloc(h, [cls |-> "list", elems |-> item.elems])
    ELSE [heap |-> h, ref |-> item]

RECURSIVE DotAccessDict(_, _)
RECURSIVE UpdateItems(_, _, _, _)
RECURSIVE WrapList(_, _, _, _)

(* [DotAccessDict(item) if isinstance(item, dict) else item for item in value] *)
WrapList(h, es, i, acc) ==
    IF i > Len(es) THEN Alloc(h, [cls |-> "list", elems |-> acc])
    ELSE LET r == IF es[i].t = "dict" THEN DotAccessDict(h, es[i]) ELSE Kept(h, es[i])
         IN  WrapList(r.heap, es, i + 1, Append(acc, r.ref))

(* The loop of _update_from_dict over data.items(). *)
UpdateItems(h, self, its, i) ==
    IF i > Len(its) THEN h
    ELSE LET key == its[i][1]
             value == its[i][2]
             r == IF value.t = "dict" THEN DotAccessDict(h, value)
                  ELSE IF value.t = "list" THEN WrapList(h, value.elems, 1, <<>>)
                  ELSE [heap |-> h, ref |-> value]
         IN  UpdateItems(Store(r.heap, self, key, r.ref), self, its, i + 1)

(* _update_from_dict looping over sorted(data.items()), as create_ordered_box does. *)
_update_from_dict_Sorted(h, self, data) ==
    IF data.t # "dict" THEN h
    ELSE UpdateItems(h, self, sorted(data.items, "None", FALSE), 1)

_update_from_dict(h, self, data) ==
    IF data.t # "dict" THEN h ELSE UpdateItems(h, self, data.items, 1)

(* bool(data) for the values a document can be. *)
Truthy(v) ==
    CASE v.t = "dict" -> v.items # <<>>
      [] v.t = "list" -> v.elems # <<>>
      [] v.t = "int" -> v.v # 0
      [] OTHER -> FALSE

(* DotAccessDict.__init__: a new accessor, filled from data when data is truthy. *)
DotAccessDict(h, data) ==
    LET new == Alloc(h, [cls |-> "DotAccessDict", _data |-> <<>>,
                         _namespace |-> <<>>, attrs |-> <<>>])
    IN  IF Truthy(data)
        THEN [heap |-> _update_from_dict(new.heap, new.ref.id, data), ref |-> new.ref]
        ELSE new

load_yaml_string(h, data) == DotAccessDict(h, data)

----------------------------------------------------------------------------
(* Attribute access. *)

SafeNone == [t |-> "SafeNone"]               \* an instance of class SafeNone
BoundMethod(self, name) == [t |-> "method", self |-> self, name |-> name]

(* What the class DotAccessDict defines, and what __init__ sets on the instance. *)
ClassAttrs == {"get", "keys", "items", "values", "sort", "_update_from_dict"}
InstanceAttrs == {"_data", "_namespace"}
(* The methods of a plain dict among the names read. *)
DictAttrs == {"get", "keys", "items", "values"}

(* __getattr__ as it would be had it been written as __getattribute__, consulted
   before the instance's own attributes. *)
AccessorAttr_NamespaceFirst(h, self, name) ==
    IF name \in DOMAIN h[self]._namespace THEN h[self]._namespace[name]
    ELSE IF name \in DOMAIN h[self].attrs THEN h[self].attrs[name]
    ELSE SafeNone

(* DotAccessDict.__getattr__: the namespace's attribute, or a SafeNone. *)
__getattr__(h, self, name) ==
    IF name \in DOMAIN h[self]._namespace
    THEN h[self]._namespace[name]
    ELSE SafeNone

(* SafeNone.__getattr__ *)
SafeNone__getattr__(name) == PyNone

(* Python's lookup of obj.name on an accessor: the instance's own attributes, then
   the class's, and __getattr__ only when both fail. *)
AccessorAttr(h, self, name) ==
    IF name \in DOMAIN h[self].attrs THEN h[self].attrs[name]
    ELSE IF name \in InstanceAttrs THEN [t |-> "internal", self |-> self, name |-> name]
    ELSE IF name \in ClassAttrs THEN BoundMethod(self, name)
    ELSE __getattr__(h, self, name)

(* obj.name for any value a chain can reach. *)
getattr(h, obj, name) ==
    IF IsAccessor(h, obj) THEN AccessorAttr(h, obj.id, name)
    ELSE IF obj.t = "SafeNone" THEN SafeNone__getattr__(name)
    ELSE IF obj.t = "dict" /\ name \in DictAttrs THEN BoundMethod(obj, name)
    ELSE Raised("AttributeError")

(* obj.name = value on an accessor: the class defines no __setattr__, so the value
   goes to the instance's own attributes. *)
setattr(h, self, name, value) ==
    [h EXCEPT ![self].attrs = (name :> value) @@ @]

(* bool(v) *)
bool(h, v) ==
    CASE v.t = "SafeNone" -> FALSE           \* SafeNone.__bool__
      [] v.t = "None" -> FALSE
      [] v.t = "int" -> v.v # 0
      [] v.t = "dict" -> v.items # <<>>
      [] v.t = "ref" -> IF h[v.id].cls = "list" THEN h[v.id].elems # <<>> ELSE TRUE
      [] OTHER -> TRUE

----------------------------------------------------------------------------
(* Enumeration. *)

items(h, self) == h[self]._data
keys(h, self) == [i \in 1..Len(h[self]._data) |-> h[self]._data[i][1]]
values(h, self) == [i \in 1..Len(h[self]._data) |-> h[self]._data[i][2]]
get(h, self, key, default) ==
    IF \E i \in 1..Len(h[self]._data) : h[self]._data[i][1] = key
    THEN LET i == CHOOSE j \in 1..Len(h[self]._data) : h[self]._data[j][1] = key
         IN  h[self]._data[i][2]
    ELSE default

----------------------------------------------------------------------------
(* Equality. *)

RECURSIVE PyEq(_, _, _)
RECURSIVE ItemsEq(_, _, _)

(* list.__eq__ on two lists of (key, value) tuples: the same length, and equal keys
   and equal values place by place. *)
ItemsEq(h, p, q) ==
    /\ Len(p) = Len(q)
    /\ \A i \in 1..Len(p) : p[i][1] = q[i][1] /\ PyEq(h, p[i][2], q[i][2])

(* Equality as a plain dict has it, the order of the keys ignored. *)
__eq__Unordered(h, self, other) ==
    /\ IsAccessor(h, other)
    /\ Len(items(h, self)) = Len(items(h, other.id))
    /\ \A i \in 1..Len(items(h, self)) :
          \E j \in 1..Len(items(h, other.id)) :
              /\ items(h, self)[i][1] = items(h, other.id)[j][1]
              /\ PyEq(h, items(h, self)[i][2], items(h, other.id)[j][2])

(* DotAccessDict.__eq__ *)
__eq__(h, self, other) ==
    IF ~IsAccessor(h, other) THEN FALSE
    ELSE ItemsEq(h, items(h, self), items(h, other.id))

(* a == b: the same object or equal scalars; else the accessor's __eq__ (reflected
   when only b is an accessor); else two lists element by element. *)
PyEq(h, a, b) ==
    IF a = b THEN TRUE
    ELSE IF IsAccessor(h, a) THEN __eq__(h, a.id, b)
    ELSE IF IsAccessor(h, b) THEN __eq__(h, b.id, a)
    ELSE IF IsListObj(h, a) /\ IsListObj(h, b)
    THEN /\ Len(h[a.id].elems) = Len(h[b.id].elems)
         /\ \A i \in 1..Len(h[a.id].elems) : PyEq(h, h[a.id].elems[i], h[b.id].elems[i])
    ELSE FALSE


----------------------------------------------------------------------------
(* Deep sort. *)

RECURSIVE sort(_, _, _, _)
RECURSIVE SortItems(_, _, _, _, _, _)
RECURSIVE SortList(_, _, _, _, _, _)

(* [item.sort(key, reverse) if isinstance(item, DotAccessDict) else item for item in v] *)
SortList(h, es, i, acc, key, reverse) ==
    IF i > Len(es) THEN Alloc(h, [cls |-> "list", elems |-> acc])
    ELSE LET r == IF IsAccessor(h, es[i]) THEN sort(h, es[i].id, key, reverse)
                  ELSE [heap |-> h, ref |-> es[i]]
         IN  SortList(r.heap, es, i + 1, Append(acc, r.ref), key, reverse)

(* The loop of sort over sorted_items. *)
SortItems(h, result, its, i, key, reverse) ==
    IF i > Len(its) THEN h
    ELSE LET k == its[i][1]
             v == its[i][2]
             r == IF IsAccessor(h, v) THEN sort(h, v.id, key, reverse)
                  ELSE IF IsListObj(h, v) THEN SortList(h, h[v.id].elems, 1, <<>>, key, reverse)
                  ELSE [heap |-> h, ref |-> v]
         IN  SortItems(Store(r.heap, result, k, r.ref), result, its, i + 1, key, reverse)

(* sort that reorders one level and keeps the nested values as they are. *)
sort_Shallow(h, self, key, reverse) ==
    LET its == sorted(h[self]._data, key, reverse)
        result == DotAccessDict(h, PyNone)
    IN  [heap |-> [result.heap EXCEPT ![result.ref.id]._data = its,
                                      ![result.ref.id]._namespace = h[self]._namespace],
         ref |-> result.ref]

(* DotAccessDict.sort *)
sort(h, self, key, reverse) ==
    LET sorted_items == sorted(h[self]._data, key, reverse)
        result == DotAccessDict(h, PyNone)
    IN  [heap |-> SortItems(result.heap, result.ref.id, sorted_items, 1, key, reverse),
         ref |-> result.ref]

----------------------------------------------------------------------------
(* The Box variant. Box is the python-box library: Box(d) wraps the mapping d and
   the mappings nested in it and keeps the order of their keys, and to_dict() gives
   the plain mappings back. *)

RECURSIVE Box(_)
Box(d) ==
    CASE d.t = "dict" ->
           [t |-> "Box", items |-> [i \in 1..Len(d.items) |-> <<d.items[i][1], Box(d.items[i][2])>>]]
      [] d.t = "list" -> PyList([i \in 1..Len(d.elems) |-> Box(d.elems[i])])
      [] OTHER -> d

RECURSIVE to_dict(_)
to_dict(b) ==
    CASE b.t = "Box" ->
           PyDict([i \in 1..Len(b.items) |-> <<b.items[i][1], to_dict(b.items[i][2])>>])
      [] b.t = "list" -> PyList([i \in 1..Len(b.elems) |-> to_dict(b.elems[i])])
      [] OTHER -> b

(* create_ordered_box: Box(OrderedDict(sorted(data.items()))); data.items() raises
   when data is no mapping. *)
create_ordered_box(data) ==
    IF data.t # "dict" THEN Raised("AttributeError")
    ELSE Box(PyDict(sorted(data.items, "None", FALSE)))

RECURSIVE sort_nested_dictionary(_)
sort_nested_dictionary(d) ==
    CASE d.t = "dict" ->
           PyDict(sorted([i \in 1..Len(d.items) |->
                             <<d.items[i][1], sort_nested_dictionary(d.items[i][2])>>],
                         "str0", FALSE))
      [] d.t = "list" -> PyList([i \in 1..Len(d.elems) |-> sort_nested_dictionary(d.elems[i])])
      [] OTHER -> d

sort_ordered_box(b) == Box(sort_nested_dictionary(to_dict(b)))

----------------------------------------------------------------------------
(* The program's steps. *)

Init ==
    /\ heap = <<>>
    /\ src = Null
    /\ x = Null
    /\ box = Null
    /\ sbox = Null
    /\ cur = Null
    /\ miss = 0
    /\ written = <<>>
    /\ assigns = 0
    /\ y = Null
    /\ args = Null
    /\ z = Null

(* simplenamespace_sample: loaded_yaml = load_yaml_string(S) *)
Load(S) ==
    /\ LET r == load_yaml_string(heap, S)
       IN  /\ heap' = r.heap
           /\ x' = r.ref
    /\ src' = S
    /\ UNCHANGED <<box, sbox, cur, miss, written, assigns, y, args, z>>

(* box_sample: loaded_yaml = create_ordered_box(S) *)
LoadBox(S) ==
    /\ box' = create_ordered_box(S)
    /\ src' = S
    /\ UNCHANGED <<heap, x, sbox, cur, miss, written, assigns, y, args, z>>

(* box_sample: sorted_yaml = sort_ordered_box(loaded_yaml) *)
SortBox ==
    /\ box # Null
    /\ box.t = "Box"
    /\ sbox = Null
    /\ sbox' = sort_ordered_box(box)
    /\ UNCHANGED <<heap, src, x, box, cur, miss, written, assigns, y, args, z>>

(* A chain starts at the accessor. *)
Begin ==
    /\ x # Null
    /\ cur # x
    /\ cur' = x
    /\ miss' = 0
    /\ UNCHANGED <<heap, src, x, box, sbox, written, assigns, y, args, z>>

(* A segment is missing when its receiver is an accessor that has no such attribute:
   no attribute of the instance or the class, and none of the namespace. *)
Missing(h, obj, name) ==
    /\ IsAccessor(h, obj)
    /\ name \notin DOMAIN h[obj.id].attrs \cup InstanceAttrs \cup ClassAttrs
    /\ name \notin DOMAIN h[obj.id]._namespace

(* One more segment: cur.name. A chain that raised has ended. *)
Step(name) ==
    /\ cur # Null
    /\ cur.t # "raise"
    /\ miss < MaxChain
    /\ cur' = getattr(heap, cur, name)
    /\ miss' = IF miss > 0 \/ Missing(heap, cur, name) THEN miss + 1 ELSE 0
    /\ UNCHANGED <<heap, src, x, box, sbox, written, assigns, y, args, z>>

(* The values a caller assigns: a scalar and a mapping. *)
AssignVals == {PyInt(42), PyDict(<<<<"a", PyInt(1)>>>>)}

(* cur.name = value *)
Assign(name, value) ==
    /\ cur # Null
    /\ IsAccessor(heap, cur)
    /\ assigns < MaxAssign
    /\ heap' = setattr(heap, cur.id, name, value)
    /\ written' = (<<cur.id, name>> :> value) @@ written
    /\ assigns' = assigns + 1
    /\ UNCHANGED <<src, x, box, sbox, cur, miss, y, args, z>>

(* sorted_yaml = loaded_yaml.sort(key, reverse) *)
Sort(key, reverse) ==
    /\ x # Null
    /\ y = Null
    /\ LET r == sort(heap, x.id, key, reverse)
       IN  /\ heap' = r.heap
           /\ y' = r.ref
    /\ args' = [key |-> key, reverse |-> reverse]
    /\ UNCHANGED <<src, x, box, sbox, cur, miss, written, assigns, z>>

(* sorted_yaml.sort(key, reverse), with the arguments of the first call *)
SortAgain ==
    /\ y # Null
    /\ z = Null
    /\ LET r == sort(heap, y.id, args.key, args.reverse)
       IN  /\ heap' = r.heap
           /\ z' = r.ref
    /\ UNCHANGED <<src, x, box, sbox, cur, miss, written, assigns, y, args>>

(* Either variant loads a document, once; the accessor is then read by attribute
   chains. *)
Next ==
    \/ src = Null /\ \E S \in Sources : Load(S)
    \/ src = Null /\ \E S \in Sources : LoadBox(S)
    \/ SortBox
    \/ Begin
    \/ \E name \in Names : Step(name)

Spec == Init /\ [][Next]_vars

(* The accessor is read and assigned to. *)
NextAssign ==
    \/ src = Null /\ \E S \in NarrowSources : Load(S)
    \/ Begin
    \/ \E name \in Names : Step(name)
    \/ \E name \in Names, value \in AssignVals : Assign(name, value)

SpecAssign == Init /\ [][NextAssign]_vars

(* The accessor is sorted, and the result sorted again. *)
NextSort ==
    \/ src = Null /\ \E S \in Sources : Load(S)
    \/ \E key \in KeyFns, reverse \in BOOLEAN : Sort(key, reverse)
    \/ SortAgain

SpecSort == Init /\ [][NextSort]_vars

----------------------------------------------------------------------------
(* What an accessor holds, as a value: its ordered (key, value) pairs, nested
   accessors and lists included. *)

RECURSIVE Abs(_, _)
Abs(h, v) ==
    IF IsAccessor(h, v)
    THEN [t |-> "DotAccessDict",
          items |-> [i \in 1..Len(h[v.id]._data) |->
                        <<h[v.id]._data[i][1], Abs(h, h[v.id]._data[i][2])>>]]
    ELSE IF IsListObj(h, v)
    THEN [t |-> "list", elems |-> [i \in 1..Len(h[v.id].elems) |-> Abs(h, h[v.id].elems[i])]]
    ELSE v

(* What construction is to make of a source value: a mapping becomes an accessor, a
   list keeps its elements with each mapping among them wrapped, a scalar stays. *)
RECURSIVE Expected(_)
Expected(s) ==
    CASE s.t = "dict" ->
           [t |-> "DotAccessDict",
            items |-> [i \in 1..Len(s.items) |-> <<s.items[i][1], Expected(s.items[i][2])>>]]
      [] s.t = "list" ->
           [t |-> "list",
            elems |-> [i \in 1..Len(s.elems) |->
                          IF s.elems[i].t = "dict" THEN Expected(s.elems[i]) ELSE s.elems[i]]]
      [] OTHER -> s

(* The names an accessor answers itself, before __getattr__ is asked. *)
OwnNames(h, v) == ClassAttrs \cup InstanceAttrs \cup DOMAIN h[v.id].attrs

(* Reading back source value s at value v: v is what construction makes of s, and
   so is what v.k returns for every key k of s (when every: for every key; else for
   the keys that are not among v's own names). *)
RECURSIVE RoundTrip(_, _, _, _)
RoundTrip(h, v, s, every) ==
    /\ Abs(h, v) = Expected(s)
    /\ s.t = "dict" =>
          \A i \in 1..Len(s.items) :
              (every \/ s.items[i][1] \notin OwnNames(h, v)) =>
                  RoundTrip(h, getattr(h, v, s.items[i][1]), s.items[i][2], every)
    /\ s.t = "list" =>
          \A i \in 1..Len(s.elems) :
              s.elems[i].t = "dict" => RoundTrip(h, h[v.id].elems[i], s.elems[i], every)

----------------------------------------------------------------------------
(* Claims about attribute access (under Spec) and assignment (under SpecAssign). *)

(* C1 (as claimed): a chain of n >= 1 segments none of which exists never raises, and
   every value it passes through, the last included, is a falsy SafeNone that can be
   read further. *)
C1_AbsencePropagation ==
    miss >= 1 => cur.t = "SafeNone" /\ ~bool(heap, cur)

(* C2 (as claimed): for every key k at any nesting level of the source, reserved
   names included, reading k on the fresh accessor returns the value stored under k. *)
C2_RoundTripEveryKey ==
    (x # Null /\ src.t = "dict" /\ assigns = 0) => RoundTrip(heap, x, src, TRUE)

(* C2 (amended): for every key k at any nesting level of the source that is not a
   name the accessor itself defines (a method, _data, _namespace) and has not been
   assigned on that accessor, reading k returns the value stored under k: the scalar,
   the accessor built from the sub-mapping, or the list with its mappings wrapped. *)
C2_RoundTripOtherKeys ==
    (x # Null /\ src.t = "dict") => RoundTrip(heap, x, src, FALSE)

(* C2's case: a scalar read back from a nested mapping of the source. *)
C2_Witness ==
    /\ x # Null /\ src.t = "dict" /\ cur = PyInt(7) /\ miss = 0 /\ assigns = 0
    /\ LET last == src.items[Len(src.items)][2]
       IN  last.t = "dict" /\ last.items[Len(last.items)][2] = PyInt(7)

(* C3: once x.p = v was executed, reading x.p returns v itself, whether or not p was
   a key at construction, until p is assigned again. *)
C3_MutationVisible ==
    \A op \in DOMAIN written : getattr(heap, Ref(op[1]), op[2]) = written[op]

(* C3's case: a mapping was assigned to a name that was a key at construction, and a
   later read of the chain returned it unwrapped. *)
C3_Witness ==
    \E op \in DOMAIN written :
        /\ op[2] \in DOMAIN heap[op[1]]._namespace
        /\ written[op].t = "dict"
        /\ cur = written[op]

(* C10 (as claimed): the last value assigned to p is what the accessor stores under
   p: keys() contains p and get(p) returns it. *)
C10_AssignmentStored ==
    \A op \in DOMAIN written :
        /\ \E i \in 1..Len(keys(heap, op[1])) : keys(heap, op[1])[i] = op[2]
        /\ get(heap, op[1], op[2], PyNone) = written[op]

----------------------------------------------------------------------------
(* Claims about equality and deep sort, checked under SpecSort. *)

Accessors(h) == {i \in 1..Len(h) : h[i].cls = "DotAccessDict"}
Lists(h) == {i \in 1..Len(h) : h[i].cls = "list"}
KeySet(h, self) == {h[self]._data[i][1] : i \in 1..Len(h[self]._data)}
Pos(seq, k) == CHOOSE i \in 1..Len(seq) : seq[i] = k

(* The values that are no accessor. *)
NonAccessors(h) == {PyNone, PyInt(1), SafeNone, src} \cup {Ref(i) : i \in Lists(h)}

(* C4: a == b holds exactly when the two accessors hold the same (key, value) pairs
   in the same order, nested accessors (in lists too) compared by the same rule; an
   accessor built from the same entries in another order is not equal; and comparing
   with a value that is no accessor gives false. *)
C4_OrderSensitiveEquality ==
    /\ LET held == {<<a, Abs(heap, Ref(a))>> : a \in Accessors(heap)}
       IN  \A p, q \in held : __eq__(heap, p[1], Ref(q[1])) <=> (p[2] = q[2])
    /\ \A a \in Accessors(heap) : \A v \in NonAccessors(heap) : ~__eq__(heap, a, v)
    /\ (x # Null /\ src.t = "dict" /\ Len(src.items) >= 2) =>
          LET other == DotAccessDict(heap, PyDict(Reverse(src.items)))
          IN  /\ ~__eq__(other.heap, x.id, other.ref)
              /\ ~__eq__(other.heap, other.ref.id, x)

(* C4's case: two accessors with the same keys in different orders, which are not
   equal, beside two distinct accessors that are equal. *)
C4_Witness ==
    /\ y # Null /\ z # Null
    /\ KeySet(heap, x.id) = KeySet(heap, y.id)
    /\ keys(heap, x.id) # keys(heap, y.id)
    /\ ~__eq__(heap, x.id, y)
    /\ __eq__(heap, y.id, z)

(* b is a sorted as sort(key, reverse) is to sort it, at every level. With byItem the
   sort key of an entry is key((k, v)), entries that tie stay in their order in a,
   and reverse makes the order descending; without, the sort key is key(k) (k itself
   when key is None) and reverse gives the ascending order read backwards. Lists
   keep their positions and their elements that are no accessor. *)
RECURSIVE DeepSorted(_, _, _, _, _, _)
DeepSorted(h, a, b, key, reverse, byItem) ==
    /\ IsAccessor(h, b)
    /\ LET ak == keys(h, a.id)
           bk == keys(h, b.id)
           K(k) == IF byItem THEN ApplyKey(key, PyTuple(k, get(h, a.id, k, PyNone)))
                   ELSE ApplyKey(key, PyStr(k))
           seq == IF ~byItem /\ reverse THEN Reverse(bk) ELSE bk
           desc == byItem /\ reverse
       IN  /\ Len(bk) = Len(ak)
           /\ KeySet(h, a.id) = KeySet(h, b.id)
           /\ \A i, j \in 1..Len(seq) :
                 i < j =>
                    /\ ~Precedes(K(seq[j]), K(seq[i]), desc)
                    /\ ~Precedes(K(seq[i]), K(seq[j]), desc) => Pos(ak, seq[i]) < Pos(ak, seq[j])
           /\ \A i \in 1..Len(ak) :
                 LET va == h[a.id]._data[i][2]
                     vb == get(h, b.id, ak[i], PyNone)
                 IN  IF IsAccessor(h, va) THEN DeepSorted(h, va, vb, key, reverse, byItem)
                     ELSE IF IsListObj(h, va)
                     THEN /\ IsListObj(h, vb)
                          /\ Len(h[vb.id].elems) = Len(h[va.id].elems)
                          /\ \A n \in 1..Len(h[va.id].elems) :
                                IF IsAccessor(h, h[va.id].elems[n])
                                THEN DeepSorted(h, h[va.id].elems[n], h[vb.id].elems[n],
                                                key, reverse, byItem)
                                ELSE h[vb.id].elems[n] = h[va.id].elems[n]
                     ELSE vb = va

(* C5 (as claimed): at every level the result's entries are ordered by the key
   function applied to the entry's key (by the key itself without one), and in
   exactly the inverted order with reverse. *)
C5_DeepSortByKey ==
    y # Null => DeepSorted(heap, x, y, args.key, args.reverse, FALSE)

(* C5 (amended): at every level the result's entries are ordered by the key function
   applied to the entry's (key, value) pair (by the key itself without one),
   ascending, or descending with reverse; entries that tie keep their source order
   in both directions; list elements keep their positions and the elements that are
   no accessor are unchanged. *)
C5_DeepSortByItem ==
    y # Null => DeepSorted(heap, x, y, args.key, args.reverse, TRUE)

(* C5's case: a descending sort under a key function with ties, of an accessor whose
   three keys get reordered and whose list holds an accessor. *)
C5_Witness ==
    /\ y # Null
    /\ args = [key |-> "keylen", reverse |-> TRUE]
    /\ Len(keys(heap, x.id)) = 3
    /\ keys(heap, x.id) # keys(heap, y.id)
    /\ \E l \in Lists(heap) : \E n \in 1..Len(heap[l].elems) : IsAccessor(heap, heap[l].elems[n])

(* The objects a value holds: itself, and those its entries or elements hold. *)
RECURSIVE Reach(_, _)
Reach(h, v) ==
    IF IsAccessor(h, v)
    THEN {v.id} \cup UNION {Reach(h, h[v.id]._data[i][2]) : i \in 1..Len(h[v.id]._data)}
    ELSE IF IsListObj(h, v)
    THEN {v.id} \cup UNION {Reach(h, h[v.id].elems[i]) : i \in 1..Len(h[v.id].elems)}
    ELSE {}

(* C6 (as claimed): after y = x.sort(...), x holds what it held, and y and every
   accessor and list in y is a new object, none of them an object of x. *)
C6_SortResultIsNew ==
    y # Null =>
       /\ Abs(heap, x) = Expected(IF src.t = "dict" THEN src ELSE PyDict(<<>>))
       /\ Reach(heap, y) \cap Reach(heap, x) = {}

(* What of C6 the code does keep: x holds what it held, and the objects y shares with
   x are lists that are elements of lists, never an accessor or an entry's list. *)
C6_SharesOnlyInnerLists ==
    y # Null =>
       /\ Abs(heap, x) = Expected(IF src.t = "dict" THEN src ELSE PyDict(<<>>))
       /\ \A i \in Reach(heap, y) \cap Reach(heap, x) :
             /\ i \in Lists(heap)
             /\ \A a \in Accessors(heap) : \A n \in 1..Len(heap[a]._data) :
                   heap[a]._data[n][2] # Ref(i)

(* Some accessor in v has its keys out of their natural order. *)
Unsorted(h, v) ==
    \E a \in Reach(h, v) \cap Accessors(h) :
        \E i, j \in 1..Len(keys(h, a)) :
            i < j /\ PyLess(PyStr(keys(h, a)[j]), PyStr(keys(h, a)[i]))

(* a and b hold the same keys and, key by key, the same values, level by level. *)
RECURSIVE SameContent(_, _, _)
SameContent(h, a, b) ==
    IF IsAccessor(h, a)
    THEN /\ IsAccessor(h, b)
         /\ Len(keys(h, a.id)) = Len(keys(h, b.id))
         /\ KeySet(h, a.id) = KeySet(h, b.id)
         /\ \A k \in KeySet(h, a.id) :
               SameContent(h, get(h, a.id, k, PyNone), get(h, b.id, k, PyNone))
    ELSE IF IsListObj(h, a)
    THEN /\ IsListObj(h, b)
         /\ Len(h[a.id].elems) = Len(h[b.id].elems)
         /\ \A n \in 1..Len(h[a.id].elems) : SameContent(h, h[a.id].elems[n], h[b.id].elems[n])
    ELSE a = b

(* C7: when the keys of x are out of order at some level, x.sort() is not equal to
   x; and at every level x.sort() holds the keys of x, each with the same value. *)
C7_SortChangesOrderNotContent ==
    (y # Null /\ args = [key |-> "None", reverse |-> FALSE]) =>
       /\ Unsorted(heap, x) => (~__eq__(heap, y.id, x) /\ ~__eq__(heap, x.id, y))
       /\ SameContent(heap, x, y)

(* C7's case: x.sort() of an accessor whose top level is in order and whose nested
   accessor is not. *)
C7_Witness ==
    /\ y # Null
    /\ args = [key |-> "None", reverse |-> FALSE]
    /\ keys(heap, x.id) = keys(heap, y.id)
    /\ Unsorted(heap, x)
    /\ ~__eq__(heap, y.id, x)

(* C8: sorting the result again with the same arguments gives an equal accessor. *)
C8_SortIdempotent ==
    z # Null => (__eq__(heap, z.id, y) /\ __eq__(heap, y.id, z))

(* C8's case: a descending sort under a key function with ties that reordered three
   keys, and was then repeated. *)
C8_Witness ==
    /\ z # Null
    /\ args = [key |-> "keylen", reverse |-> TRUE]
    /\ Len(keys(heap, x.id)) = 3
    /\ keys(heap, x.id) # keys(heap, y.id)

----------------------------------------------------------------------------
(* The claim about construction order, checked under Spec. *)

(* The keys of a value, level by level, in their order. *)
RECURSIVE KeyTree(_)
KeyTree(v) ==
    CASE v.t \in {"dict", "DotAccessDict", "Box"} ->
           [i \in 1..Len(v.items) |-> <<v.items[i][1], KeyTree(v.items[i][2])>>]
      [] v.t = "list" -> [i \in 1..Len(v.elems) |-> KeyTree(v.elems[i])]
      [] OTHER -> <<>>

(* C9 (as claimed): both constructors keep the source's key order at every level,
   the top level included. *)
C9_BothKeepSourceOrder ==
    /\ (x # Null /\ src.t = "dict") => KeyTree(Abs(heap, x)) = KeyTree(src)
    /\ (box # Null /\ box.t = "Box") => KeyTree(box) = KeyTree(src)

(* C9 (amended): DotAccessDict(data) keeps the source's key order at every level;
   create_ordered_box(data) puts the top-level keys in their natural ascending order
   and keeps the source's key order at every level below. *)
C9_BoxSortsTopLevel ==
    /\ (x # Null /\ src.t = "dict") => KeyTree(Abs(heap, x)) = KeyTree(src)
    /\ (box # Null /\ box.t = "Box") =>
          /\ Len(box.items) = Len(src.items)
          /\ \A i, j \in 1..Len(box.items) :
                i < j => PyLess(PyStr(box.items[i][1]), PyStr(box.items[j][1]))
          /\ \A i \in 1..Len(box.items) :
                \E j \in 1..Len(src.items) :
                    /\ src.items[j][1] = box.items[i][1]
                    /\ KeyTree(box.items[i][2]) = KeyTree(src.items[j][2])

(* C9's case: a Box built from a document whose top-level keys are out of order and
   whose nested mapping's keys are too. *)
C9_Witness ==
    /\ box # Null /\ box.t = "Box"
    /\ Len(src.items) = 3
    /\ KeyTree(box) # KeyTree(src)
    /\ \E i \in 1..Len(box.items) :
          /\ box.items[i][2].t = "Box"
          /\ Len(box.items[i][2].items) >= 2
          /\ PyLess(PyStr(box.items[i][2].items[2][1]), PyStr(box.items[i][2].items[1][1]))

====
